---- MODULE Spec2Model ----
(***************************************************************************)
(* Model of name_relevance_detector.py: the NameRelevanceDetector class    *)
(* (load_file, analyze, _analyze_classes, _analyze_functions, _is_method,  *)
(* _extract_class_attributes, _get_node_source, _calculate_relevance,      *)
(* _split_name, _generate_suggestion) and analyze_file.                    *)
(*                                                                         *)
(* Python str values are TLA+ strings (sequences of characters); a         *)
(* character is a string of length 1, and the characters are ASCII.        *)
(* Python floats are exact rationals <<numerator, denominator>> in lowest  *)
(* terms.  A score is k/(2n) for n name tokens, minus 0, 2/10 or 3/10, and *)
(* is compared with 3/10, 5/10, 6/10, 7/10, 0 and 1; IEEE double           *)
(* comparison agrees with the exact one for every k and n a name can give  *)
(* (the one disagreement, 7/10 - 0.2 < 0.5 for n = 5, needs a generic name *)
(* of 9 letters).  The mean of analyze is exact where the float is rounded.*)
(***************************************************************************)
EXTENDS Integers, Sequences, FiniteSets

VARIABLES pc, file, code, tree, results, trace, name, implementation, ret

vars == <<pc, file, code, tree, results, trace, name, implementation, ret>>

(***************************************************************************)
(* Bounds of the checked input space.                                      *)
(***************************************************************************)
\* longest identifier generated for the Name Splitter
MaxNameLen == 4
\* most words in a generated implementation text
MaxWords == 2
\* most syntax-tree nodes below the module node of a generated file
MaxNodes == 3

(***************************************************************************)
(* Python built-ins on characters and strings.                             *)
(***************************************************************************)
UpperLetters == "ABCDEFGHIJKLMNOPQRSTUVWXYZ"
LowerLetters == "abcdefghijklmnopqrstuvwxyz"
Digits == "0123456789"

Char(s, i) == SubSeq(s, i, i)

CharsOf(s) == {Char(s, i) : i \in 1..Len(s)}

UpperSet == CharsOf(UpperLetters)
LowerSet == CharsOf(LowerLetters)
DigitSet == CharsOf(Digits)

\* str.isupper() on one character
isupper(c) == c \in UpperSet

\* [a-zA-Z]
IsAlpha(c) == c \in UpperSet \/ c \in LowerSet

\* \w of the re module (ASCII identifiers)
IsWordChar(c) == IsAlpha(c) \/ c \in DigitSet \/ c = "_"

IndexIn(letters, c) == CHOOSE i \in 1..Len(letters) : Char(letters, i) = c

LowerChar(c) == IF c \in UpperSet THEN Char(LowerLetters, IndexIn(UpperLetters, c)) ELSE c
UpperChar(c) == IF c \in LowerSet THEN Char(UpperLetters, IndexIn(LowerLetters, c)) ELSE c

RECURSIVE lower(_)
\* str.lower(): every character lower-cased, the string taken by halves
lower(s) ==
    IF Len(s) = 0 THEN ""
    ELSE IF Len(s) = 1 THEN LowerChar(s)
    ELSE LET mid == Len(s) \div 2
         IN  lower(SubSeq(s, 1, mid)) \o lower(SubSeq(s, mid + 1, Len(s)))

\* str.capitalize(): first character upper-cased, the rest lower-cased
capitalize(s) == IF s = "" THEN "" ELSE UpperChar(Head(s)) \o lower(Tail(s))

\* needle in hay
Contains(hay, needle) ==
    \E i \in 1..(Len(hay) - Len(needle) + 1) : SubSeq(hay, i, i + Len(needle) - 1) = needle

RECURSIVE JoinWith(_, _)
\* sep.join(parts)
JoinWith(parts, sep) ==
    IF parts = <<>> THEN ""
    ELSE IF Len(parts) = 1 THEN parts[1]
    ELSE parts[1] \o sep \o JoinWith(Tail(parts), sep)

(***************************************************************************)
(* _split_name                                                             *)
(***************************************************************************)
RECURSIVE SplitUnderscore(_, _, _, _)
\* [part.lower() for part in name.split('_') if part]
SplitUnderscore(s, i, current, parts) ==
    IF i > Len(s)
    THEN IF current # "" THEN Append(parts, lower(current)) ELSE parts
    ELSE IF Char(s, i) = "_"
         THEN SplitUnderscore(s, i + 1, "",
                              IF current # "" THEN Append(parts, lower(current)) ELSE parts)
         ELSE SplitUnderscore(s, i + 1, current \o Char(s, i), parts)

RECURSIVE SplitCamel(_, _, _, _)
\* the for loop over the characters of name, and the final flush of current
SplitCamel(s, i, current, parts) ==
    IF i > Len(s)
    THEN IF current # "" THEN Append(parts, lower(current)) ELSE parts
    ELSE IF isupper(Char(s, i)) /\ current # ""
         THEN SplitCamel(s, i + 1, Char(s, i), Append(parts, lower(current)))
         ELSE SplitCamel(s, i + 1, current \o Char(s, i), parts)

\* a plausible slip: an uppercase run is kept together (acronym detection)
split_name_acronym(s) ==
    LET RECURSIVE Loop(_, _, _)
        Loop(i, current, parts) ==
            IF i > Len(s)
            THEN IF current # "" THEN Append(parts, lower(current)) ELSE parts
            ELSE IF isupper(Char(s, i)) /\ current # "" /\ ~isupper(Char(s, i - 1))
                 THEN Loop(i + 1, Char(s, i), Append(parts, lower(current)))
                 ELSE Loop(i + 1, current \o Char(s, i), parts)
    IN  IF Contains(s, "_") THEN SplitUnderscore(s, 1, "", <<>>) ELSE Loop(1, "", <<>>)

split_name(s) ==
    IF Contains(s, "_") THEN SplitUnderscore(s, 1, "", <<>>) ELSE SplitCamel(s, 1, "", <<>>)

(***************************************************************************)
(* Inputs of the Name Splitter: every identifier over a small alphabet.    *)
(***************************************************************************)
NameAlphabet == {"a", "b", "A", "B", "_", "1"}

RECURSIVE StringsOfLen(_, _)
StringsOfLen(alphabet, n) ==
    IF n = 0 THEN {""}
    ELSE {s \o c : s \in StringsOfLen(alphabet, n - 1), c \in alphabet}

\* identifiers do not start with a digit
SplitInputs ==
    {s \in UNION {StringsOfLen(NameAlphabet, n) : n \in 1..MaxNameLen} : Head(s) \notin DigitSet}

NoResult == [unset |-> TRUE]

InitSplit ==
    /\ pc = "call"
    /\ name \in SplitInputs
    /\ implementation = ""
    /\ ret = NoResult
    /\ file = NoResult /\ code = NoResult /\ tree = NoResult
    /\ results = NoResult /\ trace = <<>>

CallSplitName ==
    /\ pc = "call"
    /\ ret' = [tokens |-> split_name(name)]
    /\ pc' = "return"
    /\ UNCHANGED <<file, code, tree, results, trace, name, implementation>>

SpecSplit == InitSplit /\ [][CallSplitName]_vars

(***************************************************************************)
(* C6                                                                      *)
(***************************************************************************)
RECURSIVE Concat(_)
Concat(parts) == IF parts = <<>> THEN "" ELSE Head(parts) \o Concat(Tail(parts))

RECURSIVE Without(_, _)
Without(s, c) ==
    IF s = "" THEN ""
    ELSE IF Head(s) = c THEN Without(Tail(s), c) ELSE Head(s) \o Without(Tail(s), c)

\* where the identifier is cut: with an underscore present, a token starts at
\* every non-underscore that begins the identifier or follows an underscore;
\* without, at the first character and at every later uppercase character
CutStarts(s) ==
    IF Contains(s, "_")
    THEN {i \in 1..Len(s) : Char(s, i) # "_" /\ (i = 1 \/ Char(s, i - 1) = "_")}
    ELSE {i \in 1..Len(s) : i = 1 \/ isupper(Char(s, i))}

\* the last index of the token that starts at i
TokenEnd(s, i) ==
    LET stops == IF Contains(s, "_")
                 THEN {j \in (i + 1)..Len(s) : Char(s, j) = "_"}
                 ELSE {j \in (i + 1)..Len(s) : j \in CutStarts(s)}
    IN  IF stops = {} THEN Len(s)
        ELSE (CHOOSE j \in stops : \A k \in stops : j <= k) - 1

\* the k-th smallest element of a set of integers
Nth(S, k) == CHOOSE x \in S : Cardinality({y \in S : y < x}) = k - 1

\* C6: _split_name is an order-preserving partition of the identifier: every
\* token is non-empty and has no uppercase character, the tokens concatenate
\* to the lowercased identifier without its underscores, and the cuts are
\* exactly at the underscores when there is one and otherwise exactly before
\* each uppercase character after the first character.
C6_SplitIsPartition ==
    pc = "return" =>
        LET tokens == ret.tokens
            starts == CutStarts(name)
        IN  /\ \A k \in 1..Len(tokens) : tokens[k] # "" /\ tokens[k] = lower(tokens[k])
            /\ Concat(tokens) = lower(Without(name, "_"))
            /\ Len(tokens) = Cardinality(starts)
            /\ \A k \in 1..Len(tokens) :
                   tokens[k] = lower(SubSeq(name, Nth(starts, k), TokenEnd(name, Nth(starts, k))))

\* an acronym-like identifier without underscore, cut at every uppercase letter
C6_Witness ==
    /\ pc = "return"
    /\ name = "ABa"
    /\ ret.tokens = <<"a", "ba">>

(***************************************************************************)
(* Floats as exact rationals <<numerator, denominator>> in lowest terms.   *)
(***************************************************************************)
RECURSIVE Gcd(_, _)
Gcd(a, b) == IF b = 0 THEN a ELSE Gcd(b, a % b)

Abs(n) == IF n < 0 THEN -n ELSE n

Norm(q) ==
    LET g == Gcd(Abs(q[1]), q[2]) IN <<q[1] \div g, q[2] \div g>>

Rat(n, d) == Norm(<<n, d>>)
RSub(a, b) == Norm(<<a[1] * b[2] - b[1] * a[2], a[2] * b[2]>>)
RAdd(a, b) == Norm(<<a[1] * b[2] + b[1] * a[2], a[2] * b[2]>>)
RDivInt(a, n) == Norm(<<a[1], a[2] * n>>)
RLt(a, b) == a[1] * b[2] < b[1] * a[2]
RLe(a, b) == a[1] * b[2] <= b[1] * a[2]
RMin(a, b) == IF RLt(b, a) THEN b ELSE a
RMax(a, b) == IF RLt(a, b) THEN b ELSE a

Zero == Rat(0, 1)
One == Rat(1, 1)
Half == Rat(1, 2)

(***************************************************************************)
(* _calculate_relevance                                                    *)
(***************************************************************************)
\* the tuple of line 135
STOPLIST == {"get", "set", "is", "has", "on", "class"}
\* the tuple of line 152
GENERIC == {"test", "helper", "util", "utility", "misc"}

GENERIC_PENALTY == Rat(2, 10)
SHORT_PENALTY == Rat(3, 10)

REASON_NO_PARTS == "Name doesn't contain meaningful parts"
REASON_GENERIC == "Name is too generic"
REASON_SHORT == "Name is too short"
REASON_WRONG == "Name different from implementation - Wrong name"
REASON_SOMEWHAT == "Name somewhat reflects implementation - Consider changing"
REASON_IMPROVE == "Name reflects implementation - needs improvement"
REASON_GOOD == "Name reflects implementation - good"
REASON_WELL == "Name reflects implementation well"

\* \b at the gap before position i of s (i in 1..Len(s)+1): exactly one of the
\* two neighbouring characters is a word character
WordBoundary(s, i) ==
    LET before == i > 1 /\ IsWordChar(Char(s, i - 1))
        after == i <= Len(s) /\ IsWordChar(Char(s, i))
    IN  before # after

\* re.search(r'\b' + re.escape(part) + r'\b', implementation, re.IGNORECASE)
re_search_word(part, impl) ==
    LET folded == lower(impl)
        wanted == lower(part)
    IN  \E i \in 1..(Len(impl) - Len(part) + 1) :
            /\ SubSeq(folded, i, i + Len(part) - 1) = wanted
            /\ WordBoundary(impl, i)
            /\ WordBoundary(impl, i + Len(part))

\* [p for p in name_parts if p not in (...)]
filtered_parts(name_parts) == SelectSeq(name_parts, LAMBDA p : p \notin STOPLIST)

\* a plausible slip: len(part) >= 2 for len(part) > 2
part_halves_ge2(part, impl) ==
    IF Len(part) >= 2 /\ re_search_word(part, impl) THEN 2
    ELSE IF Contains(lower(impl), part) THEN 1
    ELSE 0

\* one iteration of the loop of lines 139-143, in halves: found_parts += 1 is
\* 2, found_parts += 0.5 is 1
part_halves(part, impl) ==
    IF Len(part) > 2 /\ re_search_word(part, impl) THEN 2
    ELSE IF Contains(lower(impl), part) THEN 1
    ELSE 0

RECURSIVE found_parts(_, _)
\* the loop of lines 138-143; the result is found_parts * 2
found_parts(parts, impl) ==
    IF parts = <<>> THEN 0
    ELSE part_halves(Head(parts), impl) + found_parts(Tail(parts), impl)

\* a plausible slip: <= for < in the if/elif chain
classify_le(score) ==
    IF RLe(score, Rat(3, 10)) THEN REASON_WRONG
    ELSE IF RLe(score, Rat(5, 10)) THEN REASON_SOMEWHAT
    ELSE IF RLe(score, Rat(6, 10)) THEN REASON_IMPROVE
    ELSE IF RLe(score, Rat(7, 10)) THEN REASON_GOOD
    ELSE REASON_WELL

\* the if/elif chain of lines 160-171
classify(score) ==
    IF RLt(score, Rat(3, 10)) THEN REASON_WRONG
    ELSE IF RLt(score, Rat(5, 10)) THEN REASON_SOMEWHAT
    ELSE IF RLt(score, Rat(6, 10)) THEN REASON_IMPROVE
    ELSE IF RLt(score, Rat(7, 10)) THEN REASON_GOOD
    ELSE REASON_WELL

\* a plausible slip: the clamp of line 174 left out
clamp_missing(score) == score

\* max(0.0, min(1.0, score))
clamp(score) == RMax(Zero, RMin(One, score))

\* the whole function; base is score after line 149, raw is score after line
\* 158, score and reasons are the returned pair
calculate_relevance(nm, impl) ==
    LET parts == filtered_parts(split_name(nm))
        halves == found_parts(parts, impl)
        base == IF parts = <<>> THEN Half ELSE Rat(halves, 2 * Len(parts))
        r0 == IF parts = <<>> THEN <<REASON_NO_PARTS>> ELSE <<>>
        generic == lower(nm) \in GENERIC
        s1 == IF generic THEN RSub(base, GENERIC_PENALTY) ELSE base
        r1 == IF generic THEN Append(r0, REASON_GENERIC) ELSE r0
        short == Len(nm) <= 2
        raw == IF short THEN RSub(s1, SHORT_PENALTY) ELSE s1
        r2 == IF short THEN Append(r1, REASON_SHORT) ELSE r1
    IN  [score |-> clamp(raw), reasons |-> Append(r2, classify(raw)),
         base |-> base, raw |-> raw]

(***************************************************************************)
(* Inputs of the Relevance Scorer.                                         *)
(***************************************************************************)
ScorerNames ==
    {"x", "on", "is", "ab", "aB", "a_", "_", "get", "getSet", "test", "Helper",
     "Util", "hELPEr", "user", "getUser", "get_user_name", "userName",
     "UserName", "user_name_total", "isA", "HTTPServer", "total_ab"}

Vocabulary == {"user", "Name", "username", "user_id", "total", "helpers", "Helper", "ab"}

RECURSIVE Texts(_)
\* every text of exactly n vocabulary words, joined by single spaces
Texts(n) ==
    IF n = 0 THEN {""}
    ELSE IF n = 1 THEN Vocabulary
    ELSE {t \o " " \o w : t \in Texts(n - 1), w \in Vocabulary}

ImplInputs == UNION {Texts(n) : n \in 0..MaxWords}

InitScorer ==
    /\ pc = "call"
    /\ name \in ScorerNames
    /\ implementation \in ImplInputs
    /\ ret = NoResult
    /\ file = NoResult /\ code = NoResult /\ tree = NoResult
    /\ results = NoResult /\ trace = <<>>

CallCalculateRelevance ==
    /\ pc = "call"
    /\ ret' = calculate_relevance(name, implementation)
    /\ pc' = "return"
    /\ UNCHANGED <<file, code, tree, results, trace, name, implementation>>

SpecScorer == InitScorer /\ [][CallCalculateRelevance]_vars

(***************************************************************************)
(* C1, C2, C9                                                              *)
(***************************************************************************)
\* C1: the returned score lies in [0.0, 1.0], also when the penalties drive
\* the value before the clamp below 0.
C1_ScoreInUnitInterval ==
    pc = "return" => RLe(Zero, ret.score) /\ RLe(ret.score, One)

\* a penalty drove the value before the clamp below 0
C1_Witness ==
    /\ pc = "return"
    /\ RLt(ret.raw, Zero)
    /\ ret.score = Zero

\* the band of a score before the clamp, as closed-open intervals
BandReason(q) ==
    CASE RLt(q, Rat(3, 10)) -> REASON_WRONG
      [] RLe(Rat(3, 10), q) /\ RLt(q, Rat(5, 10)) -> REASON_SOMEWHAT
      [] RLe(Rat(5, 10), q) /\ RLt(q, Rat(6, 10)) -> REASON_IMPROVE
      [] RLe(Rat(6, 10), q) /\ RLt(q, Rat(7, 10)) -> REASON_GOOD
      [] RLe(Rat(7, 10), q) -> REASON_WELL

Optional(present, reason) == IF present THEN <<reason>> ELSE <<>>

\* C2: reasons is non-empty; its last element is the classification string of
\* the band that holds the score before the clamp (base score minus the
\* penalties); before it come the early-exit reason, "Name is too generic"
\* and "Name is too short", each at most once and in that order, the penalty
\* reasons exactly when the penalty applies.
C2_ReasonsShape ==
    pc = "return" =>
        LET reasons == ret.reasons
            generic == lower(name) \in {"test", "helper", "util", "utility", "misc"}
            short == Len(name) <= 2
            penalty == RAdd(IF generic THEN Rat(2, 10) ELSE Zero,
                            IF short THEN Rat(3, 10) ELSE Zero)
        IN  /\ reasons # <<>>
            /\ ret.raw = RSub(ret.base, penalty)
            /\ reasons[Len(reasons)] = BandReason(ret.raw)
            /\ \E early \in BOOLEAN :
                   SubSeq(reasons, 1, Len(reasons) - 1) =
                       Optional(early, REASON_NO_PARTS) \o Optional(generic, REASON_GENERIC)
                           \o Optional(short, REASON_SHORT)

\* an early exit and a penalty before the classification
C2_Witness ==
    /\ pc = "return"
    /\ name = "on"
    /\ ret.reasons = <<REASON_NO_PARTS, REASON_SHORT, REASON_WRONG>>

\* token occurs in text between characters that are not word characters,
\* compared without case
WholeWordCI(token, text) ==
    \E i \in 1..Len(text) :
        LET j == i + Len(token) - 1
        IN  /\ j <= Len(text)
            /\ lower(SubSeq(text, i, j)) = lower(token)
            /\ (i = 1 \/ ~IsWordChar(Char(text, i - 1)))
            /\ (j = Len(text) \/ ~IsWordChar(Char(text, j + 1)))

SubstringCI(token, text) ==
    \E i \in 1..Len(text) :
        LET j == i + Len(token) - 1
        IN  j <= Len(text) /\ lower(SubSeq(text, i, j)) = lower(token)

\* twice the value the claim gives a surviving token
TokenHalves(token, text) ==
    IF Len(token) > 2 /\ WholeWordCI(token, text) THEN 2
    ELSE IF SubstringCI(token, text) THEN 1
    ELSE 0

RECURSIVE SumHalves(_, _)
SumHalves(tokens, text) ==
    IF tokens = <<>> THEN 0 ELSE TokenHalves(Head(tokens), text) + SumHalves(Tail(tokens), text)

Surviving(nm) ==
    SelectSeq(split_name(nm), LAMBDA t : t \notin {"get", "set", "is", "has", "on", "class"})

\* C9: the base score is 0.5, with first reason "Name doesn't contain
\* meaningful parts", when no token survives the stoplist; otherwise it is the
\* sum over the surviving tokens of 1.0 (longer than 2 and a whole word of the
\* implementation), 0.5 (a substring) or 0, divided by their number.
C9_BaseScore ==
    pc = "return" =>
        LET tokens == Surviving(name)
        IN  IF tokens = <<>>
            THEN ret.base = Rat(1, 2) /\ ret.reasons[1] = REASON_NO_PARTS
            ELSE ret.base = Rat(SumHalves(tokens, implementation), 2 * Len(tokens))

\* one surviving token is a whole word, the other only a substring
C9_Witness ==
    /\ pc = "return"
    /\ name = "get_user_name"
    /\ implementation = "user username"
    /\ ret.base = Rat(3, 4)

(***************************************************************************)
(* _generate_suggestion                                                    *)
(***************************************************************************)
\* the set of line 205
STOP_WORDS == {"the", "and", "for", "with", "from", "self", "none", "true", "false", "return"}

FALLBACK == "Consider adding a clear docstring to help determine a better name"

RECURSIVE LettersFrom(_, _)
\* how many letters follow one another from position i of text on
LettersFrom(text, i) ==
    IF i > Len(text) \/ ~IsAlpha(Char(text, i)) THEN 0 ELSE 1 + LettersFrom(text, i + 1)

\* the length of the match of \b[a-zA-Z]{3,}\b that starts at position i of
\* text, 0 when there is none: the quantifier is greedy and gives letters back
\* until \b holds after the match
MatchLen(text, i) ==
    IF ~WordBoundary(text, i) THEN 0
    ELSE LET lens == {n \in 3..LettersFrom(text, i) : WordBoundary(text, i + n)}
         IN  IF lens = {} THEN 0 ELSE CHOOSE n \in lens : \A m \in lens : m <= n

RECURSIVE Scan(_, _, _, _)
\* the scan of re.findall over the positions where a match can start, in
\* ascending order: the leftmost match from position i on, then on after it
Scan(text, starts, i, acc) ==
    IF starts = <<>> THEN acc
    ELSE LET j == Head(starts)
             n == IF j < i THEN 0 ELSE MatchLen(text, j)
         IN  IF n > 0
             THEN Scan(text, Tail(starts), j + n, Append(acc, SubSeq(text, j, j + n - 1)))
             ELSE Scan(text, Tail(starts), i, acc)

\* re.findall(r'\b[a-zA-Z]{3,}\b', text): a match starts with a letter at \b
findall(text) ==
    Scan(text,
         SelectSeq([j \in 1..Len(text) |-> j],
                   LAMBDA j : WordBoundary(text, j) /\ IsAlpha(Char(text, j))),
         1, <<>>)

\* number of occurrences of w in the list words: Counter(words)[w]
Count(words, w) == Cardinality({i \in 1..Len(words) : words[i] = w})

RECURSIVE Keys(_, _)
\* the keys of Counter(words), in insertion order
Keys(words, acc) ==
    IF words = <<>> THEN acc
    ELSE Keys(Tail(words),
              IF \E i \in 1..Len(acc) : acc[i] = Head(words) THEN acc ELSE Append(acc, Head(words)))

RECURSIVE most_common(_, _, _)
\* Counter.most_common(n): by descending count, equal counts in insertion order
most_common(keys, words, n) ==
    IF n = 0 \/ keys = <<>> THEN <<>>
    ELSE LET best == CHOOSE i \in 1..Len(keys) :
                         /\ \A j \in 1..Len(keys) : Count(words, keys[j]) <= Count(words, keys[i])
                         /\ \A j \in 1..(i - 1) : Count(words, keys[j]) < Count(words, keys[i])
             rest == [j \in 1..(Len(keys) - 1) |-> IF j < best THEN keys[j] ELSE keys[j + 1]]
         IN  <<keys[best]>> \o most_common(rest, words, n - 1)

RECURSIVE MapCapitalize(_)
MapCapitalize(ws) ==
    IF ws = <<>> THEN <<>> ELSE <<capitalize(Head(ws))>> \o MapCapitalize(Tail(ws))

\* the three words of line 211
common_words(impl) ==
    LET words == findall(lower(impl))
        kept == SelectSeq(Keys(words, <<>>), LAMBDA w : w \notin STOP_WORDS)
    IN  most_common(kept, words, 3)

\* a plausible slip: the casing test made before the delimiter test
format_suggestion_case_first(original_name, common) ==
    IF common = <<>> THEN FALLBACK
    ELSE IF isupper(Char(original_name, 1))
    THEN "Consider: " \o JoinWith(MapCapitalize(common), "")
    ELSE IF Contains(original_name, "_")
    THEN "Consider: " \o JoinWith(common, "_")
    ELSE "Consider: " \o common[1] \o JoinWith(MapCapitalize(Tail(common)), "")

\* lines 213-222
format_suggestion(original_name, common) ==
    IF common = <<>> THEN FALLBACK
    ELSE IF Contains(original_name, "_")
    THEN "Consider: " \o JoinWith(common, "_")
    ELSE IF isupper(Char(original_name, 1))
    THEN "Consider: " \o JoinWith(MapCapitalize(common), "")
    ELSE "Consider: " \o common[1] \o JoinWith(MapCapitalize(Tail(common)), "")

generate_suggestion(original_name, impl) ==
    format_suggestion(original_name, common_words(impl))

(***************************************************************************)
(* Inputs of the Suggestion Generator.                                     *)
(***************************************************************************)
SuggestNames == {"Helper", "process", "A_b"}

\* words and phrases the generated texts are made of
SuggestVocabulary == {"run", "Run", "add", "map", "the a_bcd sum"}

RECURSIVE SuggestTexts(_)
SuggestTexts(n) ==
    IF n = 0 THEN {""}
    ELSE IF n = 1 THEN SuggestVocabulary
    ELSE {t \o " " \o w : t \in SuggestTexts(n - 1), w \in SuggestVocabulary}

\* most words in a generated implementation text of the Suggestion Generator
MaxSuggestWords == 5

InitSuggest ==
    /\ pc = "call"
    /\ name \in SuggestNames
    /\ implementation \in UNION {SuggestTexts(n) : n \in 0..MaxSuggestWords}
    /\ ret = NoResult
    /\ file = NoResult /\ code = NoResult /\ tree = NoResult
    /\ results = NoResult /\ trace = <<>>

CallGenerateSuggestion ==
    /\ pc = "call"
    /\ ret' = [text |-> generate_suggestion(name, implementation)]
    /\ pc' = "return"
    /\ UNCHANGED <<file, code, tree, results, trace, name, implementation>>

SpecSuggest == InitSuggest /\ [][CallGenerateSuggestion]_vars

(***************************************************************************)
(* C10                                                                     *)
(***************************************************************************)
RECURSIVE RunEnd(_, _)
\* the last index of the run of letters that starts at i
RunEnd(text, i) ==
    IF i = Len(text) \/ ~IsAlpha(Char(text, i + 1)) THEN i ELSE RunEnd(text, i + 1)

\* the alphabetic words of text: the runs of at least 3 letters that a
\* character other than a letter, digit or underscore (or an end of the text)
\* bounds on each side, as <<first index, last index>>
AlphabeticWords(text) ==
    LET starts == {i \in 1..Len(text) :
                      IsAlpha(Char(text, i)) /\ (i = 1 \/ ~IsWordChar(Char(text, i - 1)))}
    IN  {o \in {<<i, RunEnd(text, i)>> : i \in starts} :
            /\ o[2] - o[1] + 1 >= 3
            /\ (o[2] = Len(text) \/ ~IsWordChar(Char(text, o[2] + 1)))}

Capitalized(w) == UpperChar(Char(w, 1)) \o SubSeq(w, 2, Len(w))

RECURSIVE ConcatCapitalized(_)
ConcatCapitalized(ws) ==
    IF ws = <<>> THEN "" ELSE Capitalized(Head(ws)) \o ConcatCapitalized(Tail(ws))

RECURSIVE JoinUnderscore(_)
JoinUnderscore(ws) ==
    IF Len(ws) = 1 THEN ws[1] ELSE ws[1] \o "_" \o JoinUnderscore(Tail(ws))

\* the words ws in the casing style of the original name
FormatWords(original, ws) ==
    IF \E i \in 1..Len(original) : Char(original, i) = "_"
    THEN JoinUnderscore(ws)
    ELSE IF Char(original, 1) \in UpperSet
    THEN ConcatCapitalized(ws)
    ELSE ws[1] \o ConcatCapitalized(Tail(ws))

\* the words a suggestion may use: the alphabetic words of the lowercased
\* text that are no stopwords
Candidates(text) ==
    {SubSeq(lower(text), o[1], o[2]) : o \in AlphabeticWords(lower(text))} \
        {"the", "and", "for", "with", "from", "self", "none", "true", "false", "return"}

ExpectedSuggestion(original, impl) ==
    LET text == lower(impl)
        occ == AlphabeticWords(text)
        WordAt(o) == SubSeq(text, o[1], o[2])
        cands == Candidates(impl)
        Freq(w) == Cardinality({o \in occ : WordAt(o) = w})
        First(w) == CHOOSE i \in {o[1] : o \in {x \in occ : WordAt(x) = w}} :
                        \A o \in occ : WordAt(o) = w => i <= o[1]
        Better(u, w) == Freq(u) > Freq(w) \/ (Freq(u) = Freq(w) /\ First(u) < First(w))
        k == IF Cardinality(cands) < 3 THEN Cardinality(cands) ELSE 3
        top == [i \in 1..k |->
                   CHOOSE w \in cands : Cardinality({u \in cands : Better(u, w)}) = i - 1]
    IN  IF cands = {} THEN "Consider adding a clear docstring to help determine a better name"
        ELSE "Consider: " \o FormatWords(original, top)

\* C10: the suggestion is built from the alphabetic words of at least 3
\* letters of the lowercased implementation, without the stopwords: the (up
\* to) 3 most frequent, more frequent first and the first encountered first
\* among equally frequent ones.  With no word left it is the fixed docstring
\* message; otherwise "Consider: " and the words joined by the delimiter when
\* the original name contains one, else each capitalized when the original
\* name starts with an uppercase letter, else the first as it is and the
\* others capitalized.
C10_Suggestion ==
    pc = "return" => ret.text = ExpectedSuggestion(name, implementation)

\* four words remain, the most frequent one encountered last
C10_Witness ==
    /\ pc = "return"
    /\ name = "process"
    /\ implementation = "run the a_bcd sum map add add"
    /\ ret.text = "Consider: addRunSum"

(***************************************************************************)
(* The analysed file and its syntax tree.                                  *)
(*                                                                         *)
(* A file is a forest of statements below the module node.  Nodes are      *)
(* numbered in the order ast.walk visits them (breadth first, a body in    *)
(* source order), so a node's parent has a smaller number and parents do   *)
(* not decrease along the numbering; parent 0 is the module.               *)
(***************************************************************************)
\* Python's None, and a str value where None may stand instead
NoneVal == [none |-> TRUE]
Str(s) == [str |-> s]

\* the statements a generated file is made of
Statements ==
    {[kind |-> "ClassDef", name |-> "Helper", doc |-> ""],
     [kind |-> "ClassDef", name |-> "DataStore", doc |-> "Store data"],
     [kind |-> "FunctionDef", name |-> "process", doc |-> ""],
     [kind |-> "FunctionDef", name |-> "x", doc |-> "Add numbers"],
     [kind |-> "Assign", name |-> "count", doc |-> ""],
     [kind |-> "If", name |-> "", doc |-> ""]}

\* the statements with a body attribute
HasBody(kind) == kind \in {"ClassDef", "FunctionDef", "If"}

RECURSIVE Indent(_)
Indent(depth) == IF depth = 0 THEN "" ELSE "    " \o Indent(depth - 1)

Header(n) ==
    CASE n.kind = "ClassDef" -> "class " \o n.name \o ":"
      [] n.kind = "FunctionDef" -> "def " \o n.name \o "():"
      [] n.kind = "Assign" -> n.name \o " = 0"
      [] n.kind = "If" -> "if True:"

\* the numbers of the nodes whose parent is p, ascending
ChildrenOf(nodes, p) ==
    LET RECURSIVE Collect(_)
        Collect(i) ==
            IF i > Len(nodes) THEN <<>>
            ELSE (IF nodes[i].parent = p THEN <<i>> ELSE <<>>) \o Collect(i + 1)
    IN  Collect(1)

RECURSIVE SubtreeLines(_, _, _)
\* the physical lines of node i and everything below it
SubtreeLines(nodes, i, depth) ==
    LET n == nodes[i]
        kids == ChildrenOf(nodes, i)
        RECURSIVE Flatten(_)
        Flatten(ks) ==
            IF ks = <<>> THEN <<>>
            ELSE SubtreeLines(nodes, Head(ks), depth + 1) \o Flatten(Tail(ks))
        docline == IF n.doc # "" THEN <<Indent(depth + 1) \o "'" \o n.doc \o "'">> ELSE <<>>
        body == IF ~HasBody(n.kind) THEN <<>>
                ELSE IF kids = <<>> /\ n.doc = "" THEN <<Indent(depth + 1) \o "pass">>
                ELSE docline \o Flatten(kids)
    IN  <<Indent(depth) \o Header(n)>> \o body

RECURSIVE Depth(_, _)
Depth(nodes, i) == IF nodes[i].parent = 0 THEN 0 ELSE 1 + Depth(nodes, nodes[i].parent)

RECURSIVE Lineno(_, _)
\* the line of node i's header
Lineno(nodes, i) ==
    LET p == nodes[i].parent
        first == IF p = 0 THEN 1
                 ELSE Lineno(nodes, p) + 1 + (IF nodes[p].doc # "" THEN 1 ELSE 0)
        RECURSIVE Before(_)
        Before(j) ==
            IF j >= i THEN 0
            ELSE (IF nodes[j].parent = p
                  THEN Len(SubtreeLines(nodes, j, Depth(nodes, j))) ELSE 0) + Before(j + 1)
    IN  first + Before(1)

\* the file's text, as the lines str.splitlines() gives
SourceLines(nodes) ==
    LET RECURSIVE Flatten(_)
        Flatten(ks) ==
            IF ks = <<>> THEN <<>>
            ELSE SubtreeLines(nodes, Head(ks), 0) \o Flatten(Tail(ks))
    IN  Flatten(ChildrenOf(nodes, 0))

\* what ast.parse makes of the file: each node with its position
ParsedNodes(nodes) ==
    [i \in 1..Len(nodes) |->
        [kind |-> nodes[i].kind, name |-> nodes[i].name, doc |-> nodes[i].doc,
         parent |-> nodes[i].parent,
         lineno |-> Lineno(nodes, i),
         end_lineno |-> Lineno(nodes, i) + Len(SubtreeLines(nodes, i, Depth(nodes, i))) - 1]]

\* the parent numberings of a forest of n nodes in ast.walk order
Shapes(n) ==
    {ps \in [1..n -> 0..n] :
        /\ \A i \in 1..n : ps[i] < i
        /\ \A i \in 1..(n - 1) : ps[i] <= ps[i + 1]}

Forests(n) ==
    {f \in {[i \in 1..n |-> [kind |-> st[i].kind, name |-> st[i].name, doc |-> st[i].doc,
                              parent |-> ps[i]]] : st \in [1..n -> Statements], ps \in Shapes(n)} :
        \A i \in 1..n : f[i].parent # 0 => HasBody(f[f[i].parent].kind)}

\* the files analysed: unreadable, readable but not parsable, and parsable
Files ==
    {[status |-> "unreadable", lines |-> <<>>, nodes |-> <<>>],
     [status |-> "unparsable", lines |-> <<"def (:">>, nodes |-> <<>>]}
    \cup {[status |-> "ok", lines |-> SourceLines(f), nodes |-> ParsedNodes(f)] :
             f \in UNION {Forests(n) : n \in 0..MaxNodes}}

(***************************************************************************)
(* NameRelevanceDetector                                                   *)
(***************************************************************************)
\* a plausible slip: a failed load leaves an empty module behind
load_file_empty_tree(f) ==
    IF f.status = "ok"
    THEN [code |-> [lines |-> f.lines], tree |-> [nodes |-> f.nodes]]
    ELSE [code |-> NoneVal, tree |-> [nodes |-> <<>>]]

\* load_file: open() or ast.parse() raising leaves self.tree None; a file
\* that was read but does not parse leaves its text in self.code
load_file(f) ==
    CASE f.status = "ok" -> [code |-> [lines |-> f.lines], tree |-> [nodes |-> f.nodes]]
      [] f.status = "unparsable" -> [code |-> [lines |-> f.lines], tree |-> NoneVal]
      [] f.status = "unreadable" -> [code |-> NoneVal, tree |-> NoneVal]

\* _get_node_source, for a node with lineno and end_lineno
get_node_source(cd, node) ==
    IF cd = NoneVal \/ cd.lines = <<>> THEN ""
    ELSE JoinWith(SubSeq(cd.lines, node.lineno, node.end_lineno), " ")

\* the names of the nodes of one kind in the body of node i, in body order
BodyNames(nodes, i, kind) ==
    LET kids == ChildrenOf(nodes, i)
        RECURSIVE Pick(_)
        Pick(ks) ==
            IF ks = <<>> THEN <<>>
            ELSE (IF nodes[Head(ks)].kind = kind THEN <<nodes[Head(ks)].name>> ELSE <<>>)
                     \o Pick(Tail(ks))
    IN  Pick(kids)

\* _extract_class_attributes: the Name targets of the assignments of the body
extract_class_attributes(nodes, i) == BodyNames(nodes, i, "Assign")

\* a plausible slip: the method names left out of the summary
class_summary_no_methods(nodes, i) ==
    nodes[i].doc \o " " \o " " \o JoinWith(extract_class_attributes(nodes, i), " ")

\* impl_summary of line 61
class_summary(nodes, i) ==
    nodes[i].doc \o " " \o JoinWith(BodyNames(nodes, i, "FunctionDef"), " ")
        \o " " \o JoinWith(extract_class_attributes(nodes, i), " ")

\* impl_summary of line 88
function_summary(nodes, cd, i) ==
    nodes[i].doc \o " " \o get_node_source(cd, nodes[i])

\* a plausible slip: the suggestion generated whatever the score
suggestion_always(score, nm, impl) == Str(generate_suggestion(nm, impl))

\* the conditional expression of lines 70 and 97
suggestion_if_low(score, nm, impl) ==
    IF RLt(score, Rat(7, 10)) THEN Str(generate_suggestion(nm, impl)) ELSE NoneVal

\* the dict appended at lines 66-71 and 93-98, with the node it is about
Visit(list, i, nm, impl) ==
    LET r == calculate_relevance(nm, impl)
    IN  [list |-> list, node |-> i,
         record |-> [name |-> nm, relevance_score |-> r.score, reasons |-> r.reasons,
                     suggestion |-> suggestion_if_low(r.score, nm, impl)]]

\* _is_method: node i is in the body of a ClassDef that is a child of the tree
is_method(nodes, i) ==
    \E p \in 1..Len(nodes) :
        /\ nodes[p].parent = 0
        /\ HasBody(nodes[p].kind)
        /\ nodes[i].parent = p
        /\ nodes[p].kind = "ClassDef"

RECURSIVE analyze_classes(_, _)
\* the loop of _analyze_classes over ast.walk(self.tree), from node i on
analyze_classes(nodes, i) ==
    IF i > Len(nodes) THEN <<>>
    ELSE (IF nodes[i].kind = "ClassDef"
          THEN <<Visit("classes", i, nodes[i].name, class_summary(nodes, i))>>
          ELSE <<>>) \o analyze_classes(nodes, i + 1)

RECURSIVE analyze_functions(_, _, _)
\* the loop of _analyze_functions over ast.walk(self.tree), from node i on
analyze_functions(nodes, cd, i) ==
    IF i > Len(nodes) THEN <<>>
    ELSE (IF nodes[i].kind = "FunctionDef" /\ ~is_method(nodes, i)
          THEN <<Visit("functions", i, nodes[i].name, function_summary(nodes, cd, i))>>
          ELSE <<>>) \o analyze_functions(nodes, cd, i + 1)

RECURSIVE Records(_)
Records(visits) ==
    IF visits = <<>> THEN <<>> ELSE <<Head(visits).record>> \o Records(Tail(visits))

RECURSIVE Calls(_)
\* the calls made for the visits: _calculate_relevance for each, and
\* _generate_suggestion where a suggestion was produced
Calls(visits) ==
    IF visits = <<>> THEN <<>>
    ELSE LET v == Head(visits)
         IN  <<[op |-> "_calculate_relevance", list |-> v.list, node |-> v.node,
                score |-> v.record.relevance_score]>>
             \o (IF v.record.suggestion # NoneVal
                 THEN <<[op |-> "_generate_suggestion", list |-> v.list, node |-> v.node,
                         score |-> v.record.relevance_score]>>
                 ELSE <<>>)
             \o Calls(Tail(visits))

RECURSIVE RSum(_)
RSum(recs) == IF recs = <<>> THEN Zero ELSE RAdd(Head(recs).relevance_score, RSum(Tail(recs)))

\* a plausible slip: the mean taken over the class scores only
overall_score_classes_only(classes, functions) ==
    IF classes \o functions = <<>> THEN Zero
    ELSE IF classes = <<>> THEN Zero
    ELSE RDivInt(RSum(classes), Len(classes))

\* lines 37-43
overall_score(classes, functions) ==
    LET all_scores == classes \o functions
    IN  IF all_scores # <<>> THEN RDivInt(RSum(all_scores), Len(all_scores)) ELSE Zero

\* analyze: the returned dict, and the calls made on the way
analyze(tr, cd) ==
    IF tr = NoneVal
    THEN [results |-> [error |-> "Failed to parse the file"], calls |-> <<>>]
    ELSE LET cv == analyze_classes(tr.nodes, 1)
             fv == analyze_functions(tr.nodes, cd, 1)
         IN  [results |-> [classes |-> Records(cv), functions |-> Records(fv),
                           overall_score |-> overall_score(Records(cv), Records(fv))],
              calls |-> Calls(cv) \o Calls(fv)]

(***************************************************************************)
(* analyze_file(file_path)                                                 *)
(***************************************************************************)
Init ==
    /\ pc = "init"
    /\ file \in Files
    /\ code = NoneVal
    /\ tree = NoneVal
    /\ results = NoResult
    /\ trace = <<>>
    /\ name = "" /\ implementation = "" /\ ret = NoResult

\* NameRelevanceDetector(file_path): __init__ calls load_file
LoadFile ==
    /\ pc = "init"
    /\ code' = load_file(file).code
    /\ tree' = load_file(file).tree
    /\ pc' = "loaded"
    /\ UNCHANGED <<file, results, trace, name, implementation, ret>>

\* detector.analyze()
Analyze ==
    /\ pc = "loaded"
    /\ results' = analyze(tree, code).results
    /\ trace' = analyze(tree, code).calls
    /\ pc' = "done"
    /\ UNCHANGED <<file, code, tree, name, implementation, ret>>

Next == LoadFile \/ Analyze

Spec == Init /\ [][Next]_vars

(***************************************************************************)
(* C3, C4, C5, C7, C8                                                      *)
(***************************************************************************)
Reported == pc = "done" /\ "classes" \in DOMAIN results

\* C3: in every class and function record the suggestion is null when the
\* relevance_score is >= 0.7 and a string when it is < 0.7, and
\* _generate_suggestion is called only for a score < 0.7.
C3_SuggestionIffLow ==
    Reported =>
        /\ \A r \in {results.classes[k] : k \in 1..Len(results.classes)}
                    \cup {results.functions[k] : k \in 1..Len(results.functions)} :
               /\ RLe(Rat(7, 10), r.relevance_score) => r.suggestion = NoneVal
               /\ RLt(r.relevance_score, Rat(7, 10)) => DOMAIN r.suggestion = {"str"}
        /\ \A k \in 1..Len(trace) :
               trace[k].op = "_generate_suggestion" => RLt(trace[k].score, Rat(7, 10))

\* a report with a record on each side of 0.7
C3_Witness ==
    /\ Reported
    /\ \E k \in 1..Len(results.classes) :
           /\ results.classes[k].relevance_score = One
           /\ results.classes[k].suggestion = NoneVal
    /\ \E k \in 1..Len(results.functions) :
           /\ RLt(results.functions[k].relevance_score, Rat(7, 10))
           /\ DOMAIN results.functions[k].suggestion = {"str"}

\* C4: no function definition that is a direct child of the body of a class
\* definition, at whatever depth the class is, is scored as a free function.
C4_MethodsNeverScored ==
    Reported =>
        \A k \in 1..Len(trace) :
            trace[k].list = "functions" =>
                LET p == tree.nodes[trace[k].node].parent
                IN  ~(p # 0 /\ tree.nodes[p].kind = "ClassDef")

\* C5: overall_score is the arithmetic mean of the relevance_score of all the
\* class and function records, and 0.0 when there is none.
C5_OverallIsMean ==
    Reported =>
        LET all == results.classes \o results.functions
            total == RSum(all)
            overall == results.overall_score
        IN  IF all = <<>> THEN overall = Zero
            ELSE overall[1] * total[2] * Len(all) = total[1] * overall[2]

\* classes and functions both contribute, with different scores
C5_Witness ==
    /\ Reported
    /\ Len(results.classes) = 1
    /\ Len(results.functions) = 2
    /\ results.classes[1].relevance_score = Zero
    /\ results.functions[1].relevance_score = One
    /\ results.functions[2].relevance_score = Rat(2, 10)
    /\ results.overall_score = Rat(4, 10)

\* C7: when the file cannot be read or parsed, the result holds the error
\* message field alone, and nothing was scored or given a suggestion.
C7_LoadFailureGivesError ==
    (pc = "done" /\ file.status # "ok") =>
        /\ DOMAIN results = {"error"}
        /\ results.error = "Failed to parse the file"
        /\ trace = <<>>

\* a file that was read and did not parse
C7_Witness ==
    /\ pc = "done"
    /\ file.status = "unparsable"
    /\ code # NoneVal
    /\ DOMAIN results = {"error"}

Indices(n) == [k \in 1..n |-> k]

\* docstring, method names and attribute names of class node i, as one text
ClassText(nodes, i) ==
    LET Members(kind) ==
            SelectSeq(Indices(Len(nodes)),
                      LAMBDA j : nodes[j].parent = i /\ nodes[j].kind = kind)
        Names(ms) == [k \in 1..Len(ms) |-> nodes[ms[k]].name]
    IN  nodes[i].doc \o " " \o JoinWith(Names(Members("FunctionDef")), " ")
            \o " " \o JoinWith(Names(Members("Assign")), " ")

\* class node i has a generic name that its text does not reflect
GenericUnrelated(nodes, i) ==
    /\ lower(nodes[i].name) \in {"test", "helper", "util", "utility", "misc"}
    /\ \A k \in 1..Len(split_name(nodes[i].name)) :
           ~SubstringCI(split_name(nodes[i].name)[k], ClassText(nodes, i))

\* the suggestion is "Consider: " and words of the class's text
DrawnFromText(suggestion, nodes, i) ==
    /\ DOMAIN suggestion = {"str"}
    /\ \E n \in 1..3 : \E ws \in [1..n -> Candidates(ClassText(nodes, i))] :
           suggestion.str = "Consider: " \o FormatWords(nodes[i].name, ws)

ClassNodes(nodes) == SelectSeq(Indices(Len(nodes)), LAMBDA j : nodes[j].kind = "ClassDef")

\* C8 as stated: a generic class name unrelated to the class's text gets
\* "Name is too generic" and a suggestion "Consider: " followed by words of
\* the docstring or the method/attribute names.
C8_GenericClassSuggestion ==
    Reported =>
        \A k \in 1..Len(results.classes) :
            LET i == ClassNodes(tree.nodes)[k]
                r == results.classes[k]
            IN  GenericUnrelated(tree.nodes, i) =>
                    /\ \E j \in 1..Len(r.reasons) : r.reasons[j] = "Name is too generic"
                    /\ DrawnFromText(r.suggestion, tree.nodes, i)

\* C8 amended: a generic class name unrelated to the class's text gets "Name
\* is too generic" and a suggestion, which is "Consider: " followed by words
\* of the docstring or the method/attribute names when that text holds an
\* alphabetic word of 3 or more letters that is no stopword, and the fixed
\* docstring message when it holds none.
C8_GenericClassSuggestionOrFallback ==
    Reported =>
        /\ Len(results.classes) = Len(ClassNodes(tree.nodes))
        /\ \A k \in 1..Len(results.classes) :
               LET i == ClassNodes(tree.nodes)[k]
                   r == results.classes[k]
               IN  GenericUnrelated(tree.nodes, i) =>
                       /\ \E j \in 1..Len(r.reasons) : r.reasons[j] = "Name is too generic"
                       /\ IF Candidates(ClassText(tree.nodes, i)) = {}
                          THEN r.suggestion =
                                   Str("Consider adding a clear docstring to help determine a better name")
                          ELSE DrawnFromText(r.suggestion, tree.nodes, i)

\* class Helper with the method process and the attribute count
C8_Witness ==
    /\ Reported
    /\ Len(results.classes) = 1
    /\ GenericUnrelated(tree.nodes, ClassNodes(tree.nodes)[1])
    /\ results.classes[1].name = "Helper"
    /\ results.classes[1].suggestion = Str("Consider: ProcessCount")

====
